---------------------------- MODULE Spec2Model ----------------------------
(***************************************************************************)
(* Model of src/api/balance.rs: the serverless balance endpoint.           *)
(*                                                                         *)
(* A request is (method, query string, body).  Query strings and bodies    *)
(* are sequences of lexemes (short strings); the handler's parsing of      *)
(* them (form_urlencoded::parse, String::from_utf8_lossy,                  *)
(* serde_json::from_str::<BalanceRequest>) is modelled by operators that   *)
(* work on those sequences the way the library code does.                  *)
(*                                                                         *)
(* Each request slot runs the handler as a task of the cooperative         *)
(* scheduler: HandlerPoll runs the handler up to its first await point     *)
(* (or to its return), the closure given to spawn_blocking runs as a       *)
(* separate task (WorkerRun / WorkerPanic), HandlerResume runs the rest of *)
(* the handler once the JoinHandle is ready.                               *)
(***************************************************************************)
EXTENDS Integers, Sequences, FiniteSets, TLC

VARIABLES
    pc,       \* slot -> "idle" | "ready" | "awaiting" | "done"
    request,  \* slot -> the request being handled
    task,     \* slot -> the spawn_blocking task of the request
    calls,    \* slot -> number of closures spawned for the request
    result    \* slot -> what handler returned: Ok(response) or Err

vars == <<pc, request, task, calls, result>>

---------------------------------------------------------------------------
(* Bounds of the model.                                                    *)

\* Largest number of '&'-separated segments of an enumerated query string.
MaxPairs == 3
\* Number of request slots handled concurrently in ConcSpec.
NumReq == 2

---------------------------------------------------------------------------
(* Generic helpers.                                                        *)

None == [some |-> FALSE, val |-> ""]
Some(v) == [some |-> TRUE, val |-> v]

RECURSIVE Concat(_)
\* The string spelled by a sequence of lexemes.
Concat(s) == IF s = <<>> THEN "" ELSE Head(s) \o Concat(Tail(s))

\* Index of the first element of s equal to c, 0 if there is none.
IndexOf(s, c) ==
    IF \E i \in 1..Len(s) : s[i] = c
    THEN CHOOSE i \in 1..Len(s) : s[i] = c /\ \A j \in 1..(i-1) : s[j] # c
    ELSE 0

---------------------------------------------------------------------------
(* form_urlencoded::parse, as the GET arm uses it (lines 26-34).           *)

\* Percent-decoding of one lexeme of a query string, '+' being a space.
DecodeLexeme(t) ==
    CASE t = "+"   -> " "
      [] t = "%65" -> "e"
      [] t = "%26" -> "&"
      [] t = "%3D" -> "="
      [] OTHER     -> t

\* decode(): the decoded string of a raw name or value.
Decode(raw) == Concat([i \in 1..Len(raw) |-> DecodeLexeme(raw[i])])

\* One non-empty segment: split at the first '=', decode both halves.
ParsePair(seg) ==
    LET eq == IndexOf(seg, "=")
    IN  IF eq = 0
        THEN <<Decode(seg), "">>
        ELSE <<Decode(SubSeq(seg, 1, eq - 1)), Decode(SubSeq(seg, eq + 1, Len(seg)))>>

RECURSIVE ParseQuery(_)
\* form_urlencoded::parse(..).into_owned().collect(): the pairs in order;
\* the input is cut at each '&' and empty segments are skipped.
ParseQuery(raw) ==
    IF raw = <<>> THEN <<>>
    ELSE LET amp  == IndexOf(raw, "&")
             seg  == IF amp = 0 THEN raw ELSE SubSeq(raw, 1, amp - 1)
             rest == IF amp = 0 THEN <<>> ELSE SubSeq(raw, amp + 1, Len(raw))
         IN  IF seg = <<>> THEN ParseQuery(rest)
             ELSE <<ParsePair(seg)>> \o ParseQuery(rest)

\* Mutant of FindAddress: the last pair with key address wins.
FindLastAddress(params) ==
    LET hits == {i \in 1..Len(params) : params[i][1] = "address"}
    IN  IF hits = {} THEN 0
        ELSE CHOOSE i \in hits : \A j \in hits : i >= j

\* params.iter().find(|(k, _)| k == "address"): the pair that supplies the address.
FindAddress(params) ==
    LET hits == {i \in 1..Len(params) : params[i][1] = "address"}
    IN  IF hits = {} THEN 0
        ELSE CHOOSE i \in hits : \A j \in hits : i <= j

\* Mutant of GetAddress: an address pair with an empty value counts as absent.
GetAddressNonEmpty(query) ==
    LET raw    == IF query.present THEN query.raw ELSE <<>>
        params == ParseQuery(raw)
        i      == FindAddress(params)
    IN  IF i = 0 \/ params[i][2] = "" THEN None ELSE Some(params[i][2])

\* The GET arm: query().unwrap_or(""), parse, find, map to the value.
GetAddress(query) ==
    LET raw    == IF query.present THEN query.raw ELSE <<>>
        params == ParseQuery(raw)
        i      == FindAddress(params)
    IN  IF i = 0 THEN None ELSE Some(params[i][2])

---------------------------------------------------------------------------
(* The POST arm's reading of the body (lines 37-41).                       *)

EmptyBody == [kind |-> "Empty", data |-> <<>>]
TextBody(t) == [kind |-> "Text", data |-> t]
BinaryBody(b) == [kind |-> "Binary", data |-> b]

\* String::from_utf8_lossy on one byte lexeme: an invalid byte becomes U+FFFD.
LossyLexeme(b) == IF b = "<FF>" THEN "<U+FFFD>" ELSE b

\* The text of a body that is not Body::Empty: Text is cloned, Binary is
\* decoded lossily.
BodyText(body) ==
    IF body.kind = "Text" THEN body.data
    ELSE [i \in 1..Len(body.data) |-> LossyLexeme(body.data[i])]

---------------------------------------------------------------------------
(* serde_json::from_str::<BalanceRequest> (lines 10-13 and 43).            *)
(* A JSON text is a sequence of lexemes: punctuation, string literals      *)
(* (with their quotes), other scalars, whitespace, and anything else.      *)

\* The contents of the string literals the inputs are built from.
StringContents ==
    {"address", "", "abc", "wrong", "field",
     "11111111111111111111111111111111",
     "Vote111111111111111111111111111111111111111"}

\* The literal of a string without escapes.
Quote(s) == "\"" \o s \o "\""

\* String literal -> the string it denotes; the last one spells "address"
\* with a \u escape.
StringTable ==
    {<<Quote(s), s>> : s \in StringContents} \cup {<<"\"addr\\u0065ss\"", "address">>}

IsStringLexeme(t) == \E p \in StringTable : p[1] = t
Unquote(t) == (CHOOSE p \in StringTable : p[1] = t)[2]
IsScalarLexeme(t) == IsStringLexeme(t) \/ t \in {"1", "null", "true"}

\* parse_whitespace: whitespace between lexemes is skipped everywhere.
SkipWhitespace(text) == SelectSeq(text, LAMBDA t : t # " ")

JsonOk(a) == [ok |-> TRUE, address |-> a, err |-> ""]
JsonErr(e) == [ok |-> FALSE, address |-> "", err |-> e]

RECURSIVE IgnoreValue(_, _)
RECURSIVE IgnoreItems(_, _, _, _)
\* ignore_value (the value of a field other than address): the index
\* after the JSON value that starts at t[i], 0 if there is none.
IgnoreValue(t, i) ==
    IF i > Len(t) THEN 0
    ELSE IF IsScalarLexeme(t[i]) THEN i + 1
    ELSE IF t[i] = "[" THEN IgnoreItems(t, i + 1, TRUE, FALSE)
    ELSE IF t[i] = "{" THEN IgnoreItems(t, i + 1, TRUE, TRUE)
    ELSE 0

\* The items of an ignored array or object (keyed), up to its closing
\* bracket; first is whether no item was read yet.
IgnoreItems(t, i, first, keyed) ==
    LET close == IF keyed THEN "}" ELSE "]"
    IN  IF i > Len(t) THEN 0
        ELSE IF t[i] = close THEN i + 1
        ELSE LET k == IF first THEN i ELSE IF t[i] = "," THEN i + 1 ELSE 0
                 v == IF ~keyed THEN k
                      ELSE IF k > 0 /\ k + 1 <= Len(t) /\ IsStringLexeme(t[k]) /\ t[k+1] = ":"
                           THEN k + 2 ELSE 0
                 n == IF k = 0 \/ v = 0 THEN 0 ELSE IgnoreValue(t, v)
             IN  IF n = 0 THEN 0 ELSE IgnoreItems(t, n, FALSE, keyed)

\* de.end(): anything after the value is an error.
EndOfInput(t, i, a) ==
    IF i > Len(t) THEN JsonOk(a) ELSE JsonErr("trailing characters")

\* The derived visit_seq followed by end_seq: the struct read from an
\* array holding exactly its one field.
VisitSeq(t) ==
    IF Len(t) < 2 THEN JsonErr("EOF while parsing a list")
    ELSE IF t[2] = "]" THEN JsonErr("invalid length 0")
    ELSE IF ~IsStringLexeme(t[2]) THEN JsonErr("invalid type")
    ELSE IF Len(t) < 3 THEN JsonErr("EOF while parsing a list")
    ELSE IF t[3] # "]" THEN JsonErr("trailing characters")
    ELSE EndOfInput(t, 4, Unquote(t[2]))

RECURSIVE VisitMap(_, _, _, _)
\* The derived visit_map followed by end_map: t[i] is where the next key,
\* ',' or '}' is expected; addr is the address field read so far.
VisitMap(t, i, first, addr) ==
    IF i > Len(t) THEN JsonErr("EOF while parsing an object")
    ELSE IF t[i] = "}" THEN
        IF addr.some THEN EndOfInput(t, i + 1, addr.val)
        ELSE JsonErr("missing field address")
    ELSE LET k == IF first THEN i ELSE IF t[i] = "," THEN i + 1 ELSE 0
         IN  IF k = 0 THEN JsonErr("expected comma or closing brace")
             ELSE IF k > Len(t) THEN JsonErr("EOF while parsing an object")
             ELSE IF t[k] = "}" THEN JsonErr("trailing comma")
             ELSE IF ~IsStringLexeme(t[k]) THEN JsonErr("key must be a string")
             ELSE IF k + 1 > Len(t) \/ t[k+1] # ":" THEN JsonErr("expected colon")
             ELSE IF Unquote(t[k]) = "address" THEN
                 IF addr.some THEN JsonErr("duplicate field address")
                 ELSE IF k + 2 <= Len(t) /\ IsStringLexeme(t[k+2])
                      THEN VisitMap(t, k + 3, FALSE, Some(Unquote(t[k+2])))
                      ELSE JsonErr("invalid type")
             ELSE LET n == IgnoreValue(t, k + 2)
                  IN  IF n = 0 THEN JsonErr("syntax error")
                      ELSE VisitMap(t, n, FALSE, addr)

\* deserialize_struct: a struct is read from an object or from an array.
FromStr(text) ==
    LET t == SkipWhitespace(text)
    IN  IF t = <<>> THEN JsonErr("EOF while parsing a value")
        ELSE IF t[1] = "[" THEN VisitSeq(t)
        ELSE IF t[1] = "{" THEN VisitMap(t, 2, TRUE, None)
        ELSE JsonErr("invalid type")

---------------------------------------------------------------------------
(* Responses (lines 49-51, 71-75, 93-99).                                  *)

StatusOk == 200
StatusBadRequest == 400
StatusMethodNotAllowed == 405
StatusInternalServerError == 500

JsonContentType == <<"Content-Type", "application/json">>

NoResponse == [status |-> 0, headers |-> {}, body |-> <<>>]

\* What a function returning Result<Response<Body>, Error> can do.
Returned(resp) == [kind |-> "Ok", resp |-> resp]
Failed == [kind |-> "Err", resp |-> NoResponse]
Panicked == [kind |-> "Panic", resp |-> NoResponse]
Pending == [kind |-> "None", resp |-> NoResponse]

\* Response::builder().status(..).header(..)*.body(..): Err when a part is
\* not a valid status code or header name.
Build(status, headers, body) ==
    IF status \in 100..999 /\ \A h \in headers : h[1] # ""
    THEN Returned([status |-> status, headers |-> headers, body |-> body])
    ELSE Failed

\* The ? operator on a builder result: the response, or the error goes to the caller.
Try(built) == built

\* unwrap() on a builder result: the response, or a panic.
Unwrap(built) == IF built.kind = "Ok" THEN built ELSE Panicked

\* json!({ "error": msg }).to_string()
ErrorJson(msg) == <<"{", Quote("error"), ":", Quote(msg), "}">>

DigitLexeme(d) == <<"0", "1", "2", "3", "4", "5", "6", "7", "8", "9">>[d + 1]

RECURSIVE DecimalReversed(_)
\* Mutant of Decimal: the digits come out least significant first.
DecimalReversed(n) ==
    IF n < 10 THEN <<DigitLexeme(n)>>
    ELSE <<DigitLexeme(n % 10)>> \o DecimalReversed(n \div 10)

RECURSIVE Decimal(_)
\* The decimal digits serde_json writes for an unsigned integer.
Decimal(n) ==
    IF n < 10 THEN <<DigitLexeme(n)>>
    ELSE Decimal(n \div 10) \o <<DigitLexeme(n % 10)>>

\* json!({ "lamports": lamports }).to_string()
LamportsJson(lamports) == <<"{", Quote("lamports"), ":">> \o Decimal(lamports) \o <<"}">>

\* error_response(msg, status)
ErrorResponse(msg, status) == Unwrap(Build(status, {JsonContentType}, ErrorJson(msg)))

\* Mutant of MethodNotAllowed: the 405 goes through error_response.
MethodNotAllowedJson == ErrorResponse("Method Not Allowed", StatusMethodNotAllowed)

\* The arm of any method other than GET and POST.
MethodNotAllowed == Try(Build(StatusMethodNotAllowed, {}, <<"Method Not Allowed">>))

---------------------------------------------------------------------------
(* handler up to the call of fetch_balance (lines 21-58).                  *)

Proceed(a) == [returned |-> FALSE, result |-> Pending, address |-> a]
Return(res) == [returned |-> TRUE, result |-> res, address |-> ""]

\* The POST arm.
PostAddress(body) ==
    IF body.kind = "Empty"
    THEN Return(ErrorResponse("Empty body", StatusBadRequest))
    ELSE LET data == FromStr(BodyText(body))
         IN  IF data.ok THEN Proceed(data.address)
             ELSE Return(ErrorResponse("Invalid JSON", StatusBadRequest))

\* The match on the method, then the match on the extracted address.
BeforeLookup(req) ==
    IF req.method = "GET" THEN
        LET a == GetAddress(req.query)
        IN  IF a.some THEN Proceed(a.val)
            ELSE Return(ErrorResponse("Missing address", StatusBadRequest))
    ELSE IF req.method = "POST" THEN PostAddress(req.body)
    ELSE Return(MethodNotAllowed)

---------------------------------------------------------------------------
(* fetch_balance and the closure it spawns (lines 79-90).                  *)

\* The account identifiers among the strings of the model: Pubkey's FromStr
\* accepts the base58 strings that decode to 32 bytes.
Pubkeys ==
    {"11111111111111111111111111111111",
     "Vote111111111111111111111111111111111111111"}

IsPubkey(s) == s \in Pubkeys

\* Balances a node may report (u64 values within TLC's integers).
Balances == {0, 5000, 2147483647}

LookupOk(b) == [ok |-> TRUE, val |-> b, err |-> ""]
LookupErr(e) == [ok |-> FALSE, val |-> 0, err |-> e]

\* What client.get_balance may return for an account.
RpcOutcomes == {LookupOk(b) : b \in Balances} \cup {LookupErr("ClientError")}

\* What the closure may return for an address: the parse or the query
\* may fail, each returning early with its error.
ClosureOutcomes(address) ==
    IF IsPubkey(address) THEN RpcOutcomes ELSE {LookupErr("ParsePubkeyError")}

NoTask == [state |-> "none", on |-> "", address |-> "", join |-> "", out |-> LookupErr("")]

\* Mutant of SpawnContext: the closure is called in place, on the
\* scheduler's thread.
SpawnOnScheduler == "scheduler"

\* Where the closure runs: spawn_blocking hands it to the blocking pool.
SpawnContext == "worker"

\* Mutant of ClosureAddress: the address lives in one cell shared by all
\* invocations, so a closure sees the address of a lookup already in flight.
ClosureAddressShared(r, address) ==
    LET others == {s \in DOMAIN task \ {r} : task[s].state # "none"}
    IN  IF others = {} THEN address
        ELSE task[CHOOSE s \in others : TRUE].address

\* The address the closure owns: its own copy of the handler's string.
ClosureAddress(r, address) == address

\* The JoinHandle awaited with ?, then the closure's result: a JoinError becomes the
\* error of fetch_balance, anything else is the closure's own result.
FetchBalance(t) ==
    IF t.join = "Ok" THEN t.out ELSE LookupErr("JoinError")

\* Mutant of AfterLookup: a malformed address is reported as a client error.
AfterLookupByCause(fetched) ==
    IF fetched.ok
    THEN Try(Build(StatusOk, {JsonContentType}, LamportsJson(fetched.val)))
    ELSE IF fetched.err = "ParsePubkeyError"
    THEN ErrorResponse("Invalid address", StatusBadRequest)
    ELSE ErrorResponse("Failed to get balance", StatusInternalServerError)

\* Mutant of AfterLookup: the error of fetch_balance is propagated with ?.
AfterLookupPropagate(fetched) ==
    IF fetched.ok
    THEN Try(Build(StatusOk, {JsonContentType}, LamportsJson(fetched.val)))
    ELSE Failed

\* handler after fetch_balance (lines 61-75).
AfterLookup(fetched) ==
    IF fetched.ok
    THEN Try(Build(StatusOk, {JsonContentType}, LamportsJson(fetched.val)))
    ELSE ErrorResponse("Failed to get balance", StatusInternalServerError)

---------------------------------------------------------------------------
(* The requests the model feeds the handler.                               *)

NoQuery == [present |-> FALSE, raw |-> <<>>]
Query(raw) == [present |-> TRUE, raw |-> raw]

\* The segments query strings are built from (a segment holds no '&').
Segments ==
    { <<>>,
      <<"address">>,
      <<"address", "=">>,
      <<"address", "=", "11111111111111111111111111111111">>,
      <<"address", "=", "abc">>,
      <<"addr", "%65", "ss", "=", "Vote111111111111111111111111111111111111111">>,
      <<"Address", "=", "Vote111111111111111111111111111111111111111">>,
      <<"x", "=", "11111111111111111111111111111111">>,
      <<"x", "%26", "address", "%3D", "abc">> }

RECURSIVE JoinSegments(_)
\* The segments written one after the other with '&' between them.
JoinSegments(segs) ==
    IF segs = <<>> THEN <<>>
    ELSE IF Len(segs) = 1 THEN Head(segs)
    ELSE Head(segs) \o <<"&">> \o JoinSegments(Tail(segs))

\* Every query string of at most MaxPairs segments, and no query string.
Queries ==
    {NoQuery} \cup
    {Query(JoinSegments(segs)) : segs \in UNION {[1..n -> Segments] : n \in 0..MaxPairs}}

FewQueries ==
    {NoQuery,
     Query(<<"address", "=", "11111111111111111111111111111111">>),
     Query(<<"x">>)}

\* {"address": s} as a JSON text.
AddressObject(s) == <<"{", Quote("address"), ":", Quote(s), "}">>

\* JSON texts that hold a BalanceRequest, and texts that do not.
Texts ==
    {AddressObject(s) : s \in {"", "abc"} \cup Pubkeys} \cup
    { <<>>,
      <<" ">>,
      <<"not", " ", "json">>,
      <<"{", "}">>,
      <<"{", Quote("wrong"), ":", Quote("field"), "}">>,
      <<"{", Quote("address"), ":", "1", "}">>,
      <<"{", Quote("address"), ":", "null", "}">>,
      <<"{", Quote("address"), ":", "[", Quote("abc"), "]", "}">>,
      <<"{", Quote("address"), ":", Quote("abc")>>,
      <<"{", Quote("address"), ":", Quote("abc"), ",", "}">>,
      <<"{", Quote("address"), ":", Quote("abc"), "}", "}">>,
      <<"{", Quote("address"), Quote("abc"), "}">>,
      <<"{", Quote("address"), ":", Quote("abc"), ",", Quote("address"), ":", Quote("abc"), "}">>,
      <<" ", "{", " ", Quote("address"), " ", ":", " ",
        Quote("11111111111111111111111111111111"), " ", "}", " ">>,
      <<"{", "\"addr\\u0065ss\"", ":", Quote("Vote111111111111111111111111111111111111111"), "}">>,
      <<"{", Quote("wrong"), ":", "[", "1", ",", "{", Quote("field"), ":", "null", "}", "]", ",",
        Quote("address"), ":", Quote("11111111111111111111111111111111"), "}">>,
      <<"{", Quote("wrong"), ":", "[", "1", ",", "]", ",",
        Quote("address"), ":", Quote("11111111111111111111111111111111"), "}">>,
      <<Quote("11111111111111111111111111111111")>>,
      <<"null">>,
      <<"[", "]">>,
      <<"[", "1", "]">>,
      <<"[", Quote("11111111111111111111111111111111"), "]">>,
      <<"[", Quote("abc"), "]">>,
      <<"[", Quote("abc"), ",", Quote("abc"), "]">>,
      <<"[", Quote("abc")>> }

\* Binary bodies: a few of the texts as bytes, and bytes that are not UTF-8.
ByteStrings ==
    { <<>>,
      <<"<FF>">>,
      AddressObject("11111111111111111111111111111111"),
      AddressObject("abc") \o <<"<FF>">>,
      <<"{", Quote("wrong"), ":", Quote("field"), "}">> }

Bodies ==
    {EmptyBody} \cup {TextBody(t) : t \in Texts} \cup {BinaryBody(b) : b \in ByteStrings}

FewBodies ==
    {EmptyBody, TextBody(AddressObject("Vote111111111111111111111111111111111111111"))}

OtherMethods == {"PUT", "DELETE", "PATCH", "HEAD", "get"}

Req(m, q, b) == [method |-> m, query |-> q, body |-> b]

\* The requests of the sequential specification.
Requests ==
    {Req("GET", q, b) : q \in Queries, b \in FewBodies} \cup
    {Req("POST", q, b) : q \in FewQueries, b \in Bodies} \cup
    {Req(m, q, b) : m \in OtherMethods, q \in FewQueries, b \in FewBodies}

\* The requests of the concurrent specification.
ConcRequests ==
    {Req("GET", q, EmptyBody) :
        q \in {NoQuery,
               Query(<<"address", "=", "11111111111111111111111111111111">>),
               Query(<<"address", "=", "abc">>)}} \cup
    {Req("POST", NoQuery, b) :
        b \in {EmptyBody,
               TextBody(AddressObject("Vote111111111111111111111111111111111111111"))}} \cup
    {Req("PUT", NoQuery, EmptyBody)}

NoRequest == Req("", NoQuery, EmptyBody)

---------------------------------------------------------------------------
(* The state machine.                                                      *)

Slots == DOMAIN pc

\* A closure running on the scheduler's own thread keeps every handler
\* from being polled.
SchedulerBlocked ==
    \E s \in Slots : task[s].state = "running" /\ task[s].on = "scheduler"

\* run(handler): an invocation arrives and its handler becomes a task.
Receive(r, reqs) ==
    /\ pc[r] = "idle"
    /\ pc' = [pc EXCEPT ![r] = "ready"]
    /\ \E req \in reqs : request' = [request EXCEPT ![r] = req]
    /\ UNCHANGED <<task, calls, result>>

\* handler from its start to its first return, or to the await of
\* fetch_balance, which spawns the closure.
HandlerPoll(r) ==
    /\ pc[r] = "ready"
    /\ ~SchedulerBlocked
    /\ \E b \in {BeforeLookup(request[r])} :
          IF b.returned
          THEN /\ pc' = [pc EXCEPT ![r] = "done"]
               /\ result' = [result EXCEPT ![r] = b.result]
               /\ UNCHANGED <<task, calls>>
          ELSE /\ pc' = [pc EXCEPT ![r] = "awaiting"]
               /\ task' = [task EXCEPT ![r] =
                             [state |-> "running", on |-> SpawnContext,
                              address |-> ClosureAddress(r, b.address),
                              join |-> "", out |-> LookupErr("")]]
               /\ calls' = [calls EXCEPT ![r] = @ + 1]
               /\ UNCHANGED result
    /\ UNCHANGED request

\* The closure runs to its end: the address is parsed, the node queried.
WorkerRun(r) ==
    /\ task[r].state = "running"
    /\ \E o \in ClosureOutcomes(task[r].address) :
          task' = [task EXCEPT ![r] = [@ EXCEPT !.state = "finished", !.join = "Ok", !.out = o]]
    /\ UNCHANGED <<pc, request, calls, result>>

\* The closure panics, or the runtime shuts down before it ran: the
\* JoinHandle yields a JoinError.
WorkerPanic(r) ==
    /\ task[r].state = "running"
    /\ \E j \in {"Panic", "Cancelled"} :
          task' = [task EXCEPT ![r] = [@ EXCEPT !.state = "finished", !.join = j]]
    /\ UNCHANGED <<pc, request, calls, result>>

\* The JoinHandle is ready: fetch_balance returns and handler finishes.
HandlerResume(r) ==
    /\ pc[r] = "awaiting"
    /\ task[r].state = "finished"
    /\ ~SchedulerBlocked
    /\ pc' = [pc EXCEPT ![r] = "done"]
    /\ result' = [result EXCEPT ![r] = AfterLookup(FetchBalance(task[r]))]
    /\ UNCHANGED <<request, task, calls>>

\* The runtime takes what handler returned; the slot is free again.
Respond(r) ==
    /\ pc[r] = "done"
    /\ pc' = [pc EXCEPT ![r] = "idle"]
    /\ request' = [request EXCEPT ![r] = NoRequest]
    /\ task' = [task EXCEPT ![r] = NoTask]
    /\ calls' = [calls EXCEPT ![r] = 0]
    /\ result' = [result EXCEPT ![r] = Pending]

InitSlots(S) ==
    /\ pc = [r \in S |-> "idle"]
    /\ request = [r \in S |-> NoRequest]
    /\ task = [r \in S |-> NoTask]
    /\ calls = [r \in S |-> 0]
    /\ result = [r \in S |-> Pending]

\* One invocation at a time, any request.
Init == InitSlots({1})

Next ==
    \/ \E r \in Slots : Receive(r, Requests)
    \/ \E r \in Slots : HandlerPoll(r)
    \/ \E r \in Slots : WorkerRun(r)
    \/ \E r \in Slots : WorkerPanic(r)
    \/ \E r \in Slots : HandlerResume(r)
    \/ \E r \in Slots : Respond(r)

Spec == Init /\ [][Next]_vars

\* NumReq invocations in flight at once.
ConcInit == InitSlots(1..NumReq)

ConcNext ==
    \/ \E r \in Slots : Receive(r, ConcRequests)
    \/ \E r \in Slots : HandlerPoll(r)
    \/ \E r \in Slots : WorkerRun(r)
    \/ \E r \in Slots : WorkerPanic(r)
    \/ \E r \in Slots : HandlerResume(r)
    \/ \E r \in Slots : Respond(r)

ConcSpec == ConcInit /\ [][ConcNext]_vars

---------------------------------------------------------------------------
(* Vocabulary of the properties.                                           *)

Done(r) == pc[r] = "done"

\* The lookup of slot r has produced its result, whatever it is.
LookupFinished(r) == task[r].state = "finished"

\* The lookup of slot r returned a balance.
LookupReturnedBalance(r) == LookupFinished(r) /\ task[r].join = "Ok" /\ task[r].out.ok

\* The lookup of slot r failed: the closure returned an error, or it never
\* returned (panic, cancellation).
LookupFailed(r) == LookupFinished(r) /\ ~(task[r].join = "Ok" /\ task[r].out.ok)

\* The decoded pairs of a request's query string, in query-string order.
PairsOf(req) == ParseQuery(IF req.query.present THEN req.query.raw ELSE <<>>)

\* The positions of the pairs whose key is address.
AddressPositions(pairs) == {i \in 1..Len(pairs) : pairs[i][1] = "address"}

\* The request's query string has a pair whose key is address.
HasAddressPair(req) == LET pairs == PairsOf(req) IN AddressPositions(pairs) # {}

\* The value of the first pair whose key is address (there is one).
FirstAddressValue(req) ==
    LET pairs == PairsOf(req)
        hits  == AddressPositions(pairs)
    IN  pairs[CHOOSE i \in hits : \A j \in hits : i <= j][2]

\* The body is the JSON text {"address": a}.
IsAddressObjectBody(body, a) ==
    body.kind \in {"Text", "Binary"} /\ body.data = <<"{", "\"address\"", ":", "\"" \o a \o "\"", "}">>

DigitValue(c) ==
    CASE c = "0" -> 0 [] c = "1" -> 1 [] c = "2" -> 2 [] c = "3" -> 3 [] c = "4" -> 4
      [] c = "5" -> 5 [] c = "6" -> 6 [] c = "7" -> 7 [] c = "8" -> 8 [] c = "9" -> 9
      [] OTHER -> -1

RECURSIVE DecimalValue(_, _)
\* The number a sequence of digits denotes after acc, -1 if it is not a
\* numeral or exceeds TLC's integers.
DecimalValue(ds, acc) ==
    IF ds = <<>> THEN acc
    ELSE IF DigitValue(Head(ds)) < 0 THEN -1
    ELSE IF acc > 214748364 \/ (acc = 214748364 /\ DigitValue(Head(ds)) > 7) THEN -1
    ELSE DecimalValue(Tail(ds), 10 * acc + DigitValue(Head(ds)))

\* The body is the JSON text {"lamports": b}.
IsLamportsBody(body, b) ==
    /\ Len(body) >= 5
    /\ SubSeq(body, 1, 3) = <<"{", "\"lamports\"", ":">>
    /\ body[Len(body)] = "}"
    /\ (Len(body) > 5 => body[4] # "0")
    /\ DecimalValue(SubSeq(body, 4, Len(body) - 1), 0) = b

\* The body is the JSON text {"error": msg}.
IsErrorBody(body, msg) == body = <<"{", "\"error\"", ":", "\"" \o msg \o "\"", "}">>

ErrorMessages == {"Empty body", "Invalid JSON", "Missing address", "Failed to get balance"}

\* handler returned Ok(response) with this status, the JSON content type
\* and the body {"error": msg}.
IsJsonError(res, status, msg) ==
    /\ res.kind = "Ok"
    /\ res.resp.status = status
    /\ res.resp.headers = {<<"Content-Type", "application/json">>}
    /\ IsErrorBody(res.resp.body, msg)

---------------------------------------------------------------------------
(* C1: a GET whose first address pair has value A, or a POST whose body is *)
(* {"address": A}, for which the lookup returned balance B, is answered    *)
(* with status 200, Content-Type: application/json and the body            *)
(* {"lamports": B}, B unchanged; the lookup was asked about A.             *)
C1_SuccessResponse ==
    \A r \in Slots :
        (Done(r) /\ LookupReturnedBalance(r)) =>
            \A a \in StringContents :
                ( \/ /\ request[r].method = "GET"
                     /\ HasAddressPair(request[r])
                     /\ FirstAddressValue(request[r]) = a
                  \/ /\ request[r].method = "POST"
                     /\ IsAddressObjectBody(request[r].body, a) )
                => /\ task[r].address = a
                   /\ result[r].kind = "Ok"
                   /\ result[r].resp.status = 200
                   /\ result[r].resp.headers = {<<"Content-Type", "application/json">>}
                   /\ IsLamportsBody(result[r].resp.body, task[r].out.val)

\* A POST of {"address": <pubkey>} answered with the largest balance.
C1_Witness ==
    \E r \in Slots :
        /\ Done(r)
        /\ request[r].method = "POST"
        /\ IsAddressObjectBody(request[r].body, "11111111111111111111111111111111")
        /\ LookupReturnedBalance(r)
        /\ task[r].out.val = 2147483647
        /\ result[r].resp.status = 200

(* C2: when the lookup of a GET or POST request fails (address not an      *)
(* account identifier, or the remote query fails), the response is 500     *)
(* with body {"error": "Failed to get balance"}, the same for both causes, *)
(* and the lookup was invoked exactly once: it is never retried.           *)
C2_LookupFailure ==
    \A r \in Slots :
        /\ calls[r] <= 1
        /\ (Done(r) /\ LookupFailed(r))
            => /\ request[r].method \in {"GET", "POST"}
               /\ IsJsonError(result[r], 500, "Failed to get balance")
               /\ calls[r] = 1

\* A request answered after its address failed to parse as an account.
C2_Witness ==
    \E r \in Slots :
        /\ Done(r)
        /\ LookupFailed(r)
        /\ task[r].out.err = "ParsePubkeyError"
        /\ result[r].resp.status = 500

(* C3: a POST whose body is empty (no body, or a text or binary body of    *)
(* zero length) is answered 400 {"error": "Empty body"} and the lookup is  *)
(* never invoked.                                                          *)
C3_EmptyBody ==
    \A r \in Slots :
        ( /\ Done(r)
          /\ request[r].method = "POST"
          /\ (request[r].body.kind = "Empty" \/ Len(request[r].body.data) = 0) )
        => /\ IsJsonError(result[r], 400, "Empty body")
           /\ calls[r] = 0

\* The text is a JSON object that carries a string field address.
IsObjectWithAddress(text) ==
    /\ SkipWhitespace(text) # <<>>
    /\ Head(SkipWhitespace(text)) = "{"
    /\ FromStr(text).ok

(* C4: a POST with a non-empty body that is not a JSON object carrying a   *)
(* string field address is answered 400 {"error": "Invalid JSON"} and the  *)
(* lookup is never invoked; a POST body that is one always supplies an     *)
(* address, whatever the query string holds.                               *)
C4_InvalidJson ==
    \A r \in Slots :
        ( /\ Done(r)
          /\ request[r].method = "POST"
          /\ request[r].body.kind # "Empty"
          /\ Len(request[r].body.data) > 0 )
        => IF IsObjectWithAddress(BodyText(request[r].body))
           THEN calls[r] = 1 /\ task[r].address = FromStr(BodyText(request[r].body)).address
           ELSE IsJsonError(result[r], 400, "Invalid JSON") /\ calls[r] = 0

(* C5: a request whose method is neither GET nor POST is answered 405 with *)
(* the plain-text body "Method Not Allowed" and no Content-Type header,    *)
(* without a lookup, whatever its query string and body; every other       *)
(* response of the handler is JSON.                                        *)
C5_MethodNotAllowed ==
    \A r \in Slots :
        Done(r) =>
            IF request[r].method \notin {"GET", "POST"}
            THEN /\ result[r].kind = "Ok"
                 /\ result[r].resp.status = 405
                 /\ result[r].resp.body = <<"Method Not Allowed">>
                 /\ \A h \in result[r].resp.headers : h[1] # "Content-Type"
                 /\ calls[r] = 0
                 /\ task[r].state = "none"
            ELSE /\ result[r].kind = "Ok"
                 /\ <<"Content-Type", "application/json">> \in result[r].resp.headers
                 /\ \/ \E msg \in ErrorMessages : IsErrorBody(result[r].resp.body, msg)
                    \/ /\ LookupReturnedBalance(r)
                       /\ IsLamportsBody(result[r].resp.body, task[r].out.val)

\* A PATCH carrying an address in both query string and body, answered 405.
C5_Witness ==
    \E r \in Slots :
        /\ Done(r)
        /\ request[r].method = "PATCH"
        /\ request[r].query.present
        /\ request[r].body.kind = "Text"
        /\ result[r].resp.status = 405

(* C6: a GET whose query string has no pair with key address (or no query  *)
(* string) is answered 400 {"error": "Missing address"} without a lookup;  *)
(* that response is given to GET requests only; a GET whose address pair   *)
(* has an empty value is not missing an address: it goes to the lookup.    *)
C6_MissingAddress ==
    \A r \in Slots :
        Done(r) =>
            /\ (request[r].method = "GET" /\ ~HasAddressPair(request[r]))
                => (IsJsonError(result[r], 400, "Missing address") /\ calls[r] = 0)
            /\ (result[r].kind = "Ok" /\ IsErrorBody(result[r].resp.body, "Missing address"))
                => request[r].method = "GET"
            /\ (request[r].method = "GET" /\ HasAddressPair(request[r]))
                => (calls[r] = 1 /\ ~IsErrorBody(result[r].resp.body, "Missing address"))

\* A GET of ?address (empty value) that went to the lookup.
C6_Witness ==
    \E r \in Slots :
        /\ Done(r)
        /\ request[r].method = "GET"
        /\ HasAddressPair(request[r])
        /\ FirstAddressValue(request[r]) = ""
        /\ calls[r] = 1
        /\ LookupFinished(r)

(* C7: for a GET whose query string has several pairs with key address,    *)
(* the address passed to the lookup is the value of the first of them in   *)
(* query-string order, whatever pairs precede or follow it.                *)
C7_FirstAddressWins ==
    \A r \in Slots :
        (request[r].method = "GET" /\ task[r].state # "none")
        => /\ HasAddressPair(request[r])
           /\ task[r].address = FirstAddressValue(request[r])

\* A lookup for a query string whose two address pairs differ in value and
\* follow a pair with another key.
C7_Witness ==
    \E r \in Slots :
        /\ request[r].method = "GET"
        /\ task[r].state # "none"
        /\ LET pairs == PairsOf(request[r])
           IN  \E i, j \in AddressPositions(pairs) :
                  1 < i /\ i < j /\ pairs[i][2] # pairs[j][2]

(* C8: the handler never fails uncaught: whatever the request and whatever *)
(* the outcome of the lookup (balance, parse failure, query failure, panic *)
(* or cancellation of the worker task), it returns a response whose status *)
(* is 200, 400, 405 or 500; every failure other than 405 has a JSON        *)
(* {"error": ...} body.                                                    *)
C8_NeverFails ==
    \A r \in Slots :
        Done(r) =>
            /\ result[r].kind = "Ok"
            /\ result[r].resp.status \in {200, 400, 405, 500}
            /\ result[r].resp.status \in {400, 500}
                => /\ result[r].resp.headers = {<<"Content-Type", "application/json">>}
                   /\ \E msg \in ErrorMessages : IsErrorBody(result[r].resp.body, msg)

\* A request answered after its worker task panicked.
C8_Witness ==
    \E r \in Slots :
        /\ Done(r)
        /\ LookupFinished(r)
        /\ task[r].join = "Panic"
        /\ result[r].kind = "Ok"
        /\ result[r].resp.status = 500

\* Some step of slot r can be taken.
CanStep(r) ==
    \/ ENABLED Respond(r)
    \/ ENABLED WorkerRun(r)
    \/ ENABLED HandlerResume(r)
    \/ ENABLED HandlerPoll(r)

(* C9: the lookup runs on a worker, not on the scheduler: while the lookup *)
(* of one request is outstanding, every other request in flight can take   *)
(* its next step towards its response; and a request that reached the      *)
(* lookup has no response before the lookup's result is there.             *)
C9_LookupOffScheduler ==
    \A r \in Slots :
        /\ task[r].state = "running" => task[r].on = "worker"
        /\ (pc[r] # "idle" /\ \E s \in Slots \ {r} : task[s].state = "running")
            => CanStep(r)
        /\ (Done(r) /\ calls[r] > 0) => LookupFinished(r)
        /\ pc[r] = "awaiting" => result[r].kind = "None"

\* One lookup outstanding while another request, whose own lookup has
\* finished, is about to be answered.
C9_Witness ==
    \E r, s \in Slots :
        /\ r # s
        /\ task[r].state = "running"
        /\ pc[s] = "awaiting"
        /\ LookupFinished(s)
        /\ ENABLED HandlerResume(s)

\* What the lookup of slot r produced, as far as the handler can tell.
Outcome(r) == [state |-> task[r].state, join |-> task[r].join, out |-> task[r].out]

(* C10: invocations are independent: the lookup of a request is about its  *)
(* own address, and two requests in flight that are equal and whose        *)
(* lookups had the same outcome have the same response, whatever else was  *)
(* handled before or meanwhile.                                            *)
C10_Independent ==
    \A r \in Slots :
        /\ task[r].state # "none"
            => LET own == BeforeLookup(request[r])
               IN  /\ ~own.returned
                   /\ task[r].address = own.address
                   /\ (LookupFinished(r) /\ task[r].join = "Ok")
                       => (task[r].out.err = "ParsePubkeyError") = ~IsPubkey(own.address)
        /\ \A s \in Slots :
              (Done(r) /\ Done(s) /\ request[r] = request[s] /\ Outcome(r) = Outcome(s))
              => result[r] = result[s]

\* Two equal requests answered alike while in flight together, each after
\* its own lookup.
C10_Witness ==
    \E r, s \in Slots :
        /\ r # s
        /\ Done(r) /\ Done(s)
        /\ request[r] = request[s]
        /\ LookupReturnedBalance(r)
        /\ Outcome(r) = Outcome(s)
        /\ result[r] = result[s]
        /\ result[r].resp.status = 200

=============================================================================
